---- MODULE Spec2Model ----
(***************************************************************************)
(* dbc2parquet: a DBC (PKWare-DCL compressed dBase III) table is loaded    *)
(* into one in-memory buffer (dbf_reader.cpp), its header and field        *)
(* catalog are parsed from that buffer, and row ranges are extracted into  *)
(* typed column batches (create_arrow_batch, main.cpp).                    *)
(*                                                                         *)
(* Bytes are naturals 0..255, buffers are sequences of bytes, and a C      *)
(* pointer into dbf.mem_buffer is a 0-based index into the sequence.       *)
(***************************************************************************)
EXTENDS Integers, Sequences, FiniteSets, TLC

VARIABLES
    env,          \* the process environment: host byte order, time zone, iconv
    input,        \* the opened input file: raw bytes and what blast() makes of it
    pc,           \* position of the program
    header_size,  \* dbc_load_dbf's local header_size
    chunk_no,     \* number of out_to_memory calls blast() has made
    mem_buffer,   \* dbf.mem_buffer
    header,       \* dbf.header
    fields,       \* dbf.fields
    columns,      \* dbf.columns
    encoding,     \* dbf.encoding
    schema,       \* the schema create_schema returned
    batch,        \* what the last create_arrow_batch call returned
    batch_size,   \* write_parquet's argument batch_size
    wp_start,     \* write_parquet's loop variable start
    sink          \* the calls made on the Parquet writer, in order

vars == <<env, input, pc, header_size, chunk_no, mem_buffer, header, fields,
          columns, encoding, schema, batch, batch_size, wp_start, sink>>

dbfVars == <<mem_buffer, header, fields, columns, encoding>>

writeVars == <<batch_size, wp_start, sink>>

(***************************************************************************)
(* Bounds of the model.                                                    *)
(***************************************************************************)
MaxCols == 3        \* descriptors in the files of the loader's specification
MaxRecords == 2     \* records in the tables of the extractor's specification
MaxRows == 2        \* largest small row count asked of create_arrow_batch

(***************************************************************************)
(* Program constants.                                                      *)
(***************************************************************************)
SizeofHeader == 32  \* sizeof(DB_HEADER)
SizeofField == 32   \* sizeof(DB_FIELD)

NullHeader == [set |-> FALSE]       \* dbf.header == nullptr
NullFields == <<>>                  \* dbf.fields == nullptr
NoSchema == <<>>                    \* no schema made yet
NoBatch == [status |-> "none"]      \* create_arrow_batch not called yet
Indeterminate == 0 - 1              \* a number no constructor has set

(***************************************************************************)
(* Characters.                                                             *)
(***************************************************************************)
ord ==
    [c \in {"NUL", "TAB", "LF", "VT", "FF", "CR", "SP", "EOF"} |->
        CASE c = "NUL" -> 0 [] c = "TAB" -> 9 [] c = "LF" -> 10
          [] c = "VT" -> 11 [] c = "FF" -> 12 [] c = "CR" -> 13
          [] c = "SP" -> 32 [] c = "EOF" -> 26]
    @@ [c \in {"*", "-", "+", ".", "0", "1", "2", "3", "4", "5", "6", "7", "8", "9"} |->
        CASE c = "*" -> 42 [] c = "+" -> 43 [] c = "-" -> 45 [] c = "." -> 46
          [] c = "0" -> 48 [] c = "1" -> 49 [] c = "2" -> 50 [] c = "3" -> 51
          [] c = "4" -> 52 [] c = "5" -> 53 [] c = "6" -> 54 [] c = "7" -> 55
          [] c = "8" -> 56 [] c = "9" -> 57]
    @@ [c \in {"A", "B", "C", "D", "F", "L", "M", "N", "T", "X", "Y", "t", "y", "n"} |->
        CASE c = "A" -> 65 [] c = "B" -> 66 [] c = "C" -> 67 [] c = "D" -> 68
          [] c = "F" -> 70 [] c = "L" -> 76 [] c = "M" -> 77 [] c = "N" -> 78
          [] c = "T" -> 84 [] c = "X" -> 88 [] c = "Y" -> 89 [] c = "t" -> 116
          [] c = "y" -> 121 [] c = "n" -> 110]

Str(s) == [i \in 1..Len(s) |-> ord[s[i]]]
Rep(b, n) == [i \in 1..n |-> b]
Take(s, n) == SubSeq(s, 1, IF n < Len(s) THEN n ELSE Len(s))
Drop(s, n) == SubSeq(s, n + 1, Len(s))

RECURSIVE Flatten(_)
Flatten(ss) == IF ss = <<>> THEN <<>> ELSE Head(ss) \o Flatten(Tail(ss))

(***************************************************************************)
(* dbf_reader.cpp: byte order.  tmp holds the raw file bytes (memcpy of    *)
(* the header), and rotate2b/rotate4b read them through an unsigned char   *)
(* pointer, lowest address first.  A member that is not rotated has the    *)
(* host's reading of the same bytes.                                       *)
(***************************************************************************)
rotate2b(b0, b1) == (b1 * 256 + b0) % 65536

\* (four bytes never sum past 2^32 - 1, so uint32_t does not wrap here; the
\* files of this model keep the top byte below 128)
rotate4b(b0, b1, b2, b3) ==
    b3 * 16777216 + b2 * 65536 + b1 * 256 + b0

HostU16(big_endian, b0, b1) ==
    IF big_endian THEN b0 * 256 + b1 ELSE b1 * 256 + b0

(***************************************************************************)
(* dbf_reader.cpp: the loader's functions, on byte sequences.              *)
(***************************************************************************)
\* fseek(8), fread of two bytes; 1 is the error value
dbf_ReadHeaderSize(bytes) ==
    IF Len(bytes) < 10 THEN 1
    ELSE (bytes[9] + bytes[10] * 256) % 65536

\* mem_buffer.resize(header_size) and the fread into it
CopiedHeader(bytes, hs) ==
    [i \in 1..hs |-> IF i <= Len(bytes) THEN bytes[i] ELSE 0]

\* the DB_HEADER overlaid on the first 32 bytes, after the two rotations
ParsedHeader(buf, big_endian) ==
    [set           |-> TRUE,
     version       |-> buf[1],
     records       |-> rotate4b(buf[5], buf[6], buf[7], buf[8]),
     header_length |-> rotate2b(buf[9], buf[10]),
     record_length |-> HostU16(big_endian, buf[11], buf[12]),
     language      |-> buf[30]]

Encoding_Mut(language) ==
    CASE language = 1 -> "CP437"
      [] language = 2 -> "CP850"
      [] language = 3 -> "CP852"
      [] language = 101 -> "CP1252"
      [] OTHER -> "CP1252"

\* the switch on header_ptr->language
Encoding(language) ==
    CASE language = 1 -> "CP437"
      [] language = 2 -> "CP850"
      [] language = 3 -> "CP852"
      [] language = 101 -> "CP1252"
      [] OTHER -> "CP850"

NumCols_Mut(hdr) ==
    IF hdr.header_length > SizeofHeader
    THEN (hdr.header_length - SizeofHeader) \div SizeofField
    ELSE 0

dbf_NumCols(hdr) ==
    IF hdr.header_length > SizeofHeader
    THEN (hdr.header_length - SizeofHeader - 1) \div SizeofField
    ELSE 0

\* a byte of the memcpy source; past the end of the buffer the read is out of
\* bounds and yields whatever lies there (garbage)
SrcByte(buf, i, garbage) == IF i + 1 <= Len(buf) THEN buf[i + 1] ELSE garbage

\* field_name read as a C string, no further than the member's 11 bytes
RECURSIVE NameFrom(_, _, _, _)
NameFrom(buf, at, k, garbage) ==
    IF k = 11 \/ SrcByte(buf, at + k, garbage) = 0 THEN <<>>
    ELSE <<SrcByte(buf, at + k, garbage)>> \o NameFrom(buf, at, k + 1, garbage)

\* descriptor i (0-based) as memcpy leaves it: field_offset not yet set
RawField(buf, i, garbage) ==
    LET at == SizeofHeader + i * SizeofField IN
    [field_name     |-> NameFrom(buf, at, 0, garbage),
     field_type     |-> SrcByte(buf, at + 11, garbage),
     field_length   |-> SrcByte(buf, at + 16, garbage),
     field_decimals |-> SrcByte(buf, at + 17, garbage)]

\* the increment done before the store
RECURSIVE OffsetLoop_Mut(_, _, _)
OffsetLoop_Mut(raw, i, offset) ==
    IF i > Len(raw) THEN <<>>
    ELSE <<[field_name     |-> raw[i].field_name,
            field_type     |-> raw[i].field_type,
            field_length   |-> raw[i].field_length,
            field_decimals |-> raw[i].field_decimals,
            field_offset   |-> offset + raw[i].field_length]>>
         \o OffsetLoop_Mut(raw, i + 1, offset + raw[i].field_length)

\* int offset = 1; for (i...) { field_offset = offset; offset += field_length; }
RECURSIVE OffsetLoop(_, _, _)
OffsetLoop(raw, i, offset) ==
    IF i > Len(raw) THEN <<>>
    ELSE <<[field_name     |-> raw[i].field_name,
            field_type     |-> raw[i].field_type,
            field_length   |-> raw[i].field_length,
            field_decimals |-> raw[i].field_decimals,
            field_offset   |-> offset]>>
         \o OffsetLoop(raw, i + 1, offset + raw[i].field_length)

FieldInfo(buf, col, garbage) ==
    OffsetLoop([i \in 1..col |-> RawField(buf, i - 1, garbage)], 1, 1)

\* whether the memcpy of col descriptors stays inside the buffer
CatalogInBuffer(buf, col) == SizeofHeader + col * SizeofField <= Len(buf)

(***************************************************************************)
(* The steps of dbc_load_dbf, in its order.                                *)
(***************************************************************************)
ReadHeaderSize ==
    /\ pc = "start"
    /\ header_size' = dbf_ReadHeaderSize(input.bytes)
    /\ pc' = IF header_size' = 1 THEN "failed" ELSE "copy_header"
    /\ UNCHANGED <<writeVars, env, input, chunk_no, dbfVars, schema, batch>>

CopyHeader ==
    /\ pc = "copy_header"
    /\ mem_buffer' = CopiedHeader(input.bytes, header_size)
    /\ pc' = IF Len(input.bytes) < header_size THEN "failed" ELSE "decompress"
    /\ UNCHANGED <<writeVars, env, input, header_size, chunk_no, header, fields, columns,
                   encoding, schema, batch>>

\* fseek(input, header_size + 4, SEEK_SET): where blast() starts to read
StreamStart(hs) == hs + 4

\* the bytes of the file that blast() is given
CompressedStream == Drop(input.bytes, StreamStart(header_size))

\* the chunk stored in front of the buffer
out_to_memory_Mut ==
    /\ pc = "decompress"
    /\ chunk_no < Len(input.blast.chunks)
    /\ mem_buffer' = input.blast.chunks[chunk_no + 1] \o mem_buffer
    /\ chunk_no' = chunk_no + 1
    /\ UNCHANGED <<writeVars, env, input, pc, header_size, header, fields,
                   columns, encoding, schema, batch>>

\* blast() hands the next chunk of output to the sink
out_to_memory ==
    /\ pc = "decompress"
    /\ chunk_no < Len(input.blast.chunks)
    /\ mem_buffer' = mem_buffer \o input.blast.chunks[chunk_no + 1]
    /\ chunk_no' = chunk_no + 1
    /\ UNCHANGED <<writeVars, env, input, pc, header_size, header, fields, columns,
                   encoding, schema, batch>>

\* the return value of blast() not looked at
DecompressReturn_Mut ==
    /\ pc = "decompress"
    /\ chunk_no = Len(input.blast.chunks)
    /\ pc' = "read_header"
    /\ UNCHANGED <<writeVars, env, input, header_size, chunk_no, dbfVars, schema,
                   batch>>

\* blast() returns; dbf_DecompressData fails on any non-zero value
DecompressReturn ==
    /\ pc = "decompress"
    /\ chunk_no = Len(input.blast.chunks)
    /\ pc' = IF input.blast.ret # 0 THEN "failed" ELSE "read_header"
    /\ UNCHANGED <<writeVars, env, input, header_size, chunk_no, dbfVars, schema, batch>>

ReadHeaderInfo ==
    /\ pc = "read_header"
    /\ IF Len(mem_buffer) < SizeofHeader
       THEN /\ pc' = "failed"
            /\ UNCHANGED <<header, encoding>>
       ELSE /\ header' = ParsedHeader(mem_buffer, env.big_endian)
            /\ encoding' = Encoding(header'.language)
            /\ pc' = "read_fields"
    /\ UNCHANGED <<writeVars, env, input, header_size, chunk_no, mem_buffer, fields,
                   columns, schema, batch>>

\* the catalog build when every descriptor lies inside the buffer
ReadFieldInfo ==
    /\ pc = "read_fields"
    /\ LET col == dbf_NumCols(header) IN
       /\ CatalogInBuffer(mem_buffer, col)
       /\ IF Len(mem_buffer) < SizeofHeader \/ col = 0
          THEN /\ pc' = "failed"
               /\ UNCHANGED <<fields, columns>>
          ELSE /\ fields' = FieldInfo(mem_buffer, col, 0)
               /\ columns' = col
               /\ pc' = "loaded"
    /\ UNCHANGED <<writeVars, env, input, header_size, chunk_no, mem_buffer, header,
                   encoding, schema, batch>>

\* the catalog build when the memcpy reads past the end of the buffer: the
\* read is undefined, and the build either faults or copies what lies there
ReadFieldInfoOverrun ==
    /\ pc = "read_fields"
    /\ LET col == dbf_NumCols(header) IN
       /\ ~CatalogInBuffer(mem_buffer, col)
       /\ \/ /\ pc' = "crashed"
             /\ UNCHANGED <<fields, columns>>
          \/ \E garbage \in {0, 255} :
                /\ fields' = FieldInfo(mem_buffer, col, garbage)
                /\ columns' = col
                /\ pc' = "loaded"
    /\ UNCHANGED <<writeVars, env, input, header_size, chunk_no, mem_buffer, header,
                   encoding, schema, batch>>

NextLoad ==
    \/ ReadHeaderSize
    \/ CopyHeader
    \/ out_to_memory
    \/ DecompressReturn
    \/ ReadHeaderInfo
    \/ ReadFieldInfo
    \/ ReadFieldInfoOverrun

(***************************************************************************)
(* Input files of the loader's specification.  A file is its raw bytes     *)
(* (header, descriptors, terminator, then four bytes and the compressed    *)
(* stream) and what blast() makes of the compressed stream: its return     *)
(* value and the chunks it hands to the sink before returning.             *)
(***************************************************************************)
U16LE(n) == <<n % 256, (n \div 256) % 256>>

U32LE(n) ==
    <<n % 256, (n \div 256) % 256, (n \div 65536) % 256, (n \div 16777216) % 256>>

\* DB_HEADER as laid out on disk
HeaderBytes(records, header_length, record_length, language) ==
    <<3, 125, 9, 1>> \o U32LE(records) \o U16LE(header_length)
    \o U16LE(record_length) \o Rep(0, 17) \o <<language>> \o Rep(0, 2)

\* DB_FIELD as laid out on disk
FieldBytes(name, type, length, decimals) ==
    name \o Rep(0, 11 - Len(name)) \o <<type>> \o Rep(0, 4)
    \o <<length, decimals>> \o Rep(0, 14)

RECURSIVE SumLens(_)
SumLens(lens) == IF lens = <<>> THEN 0 ELSE Head(lens) + SumLens(Tail(lens))

TrueHeaderLength(n) == SizeofHeader + n * SizeofField + 1

\* a file of all-Character fields of the given lengths, declaring header_length
RawBytes(header_length, lens, language) ==
    HeaderBytes(1, header_length, 1 + SumLens(lens), language)
    \o Flatten([i \in 1..Len(lens) |->
                   FieldBytes(<<ord["A"], ord["0"] + i>>, ord["C"], lens[i], 0)])
    \o <<ord["CR"]>> \o Rep(170, 8)

OneRecord(lens) == Rep(ord["SP"], 1 + SumLens(lens)) \o <<ord["EOF"]>>

BlastOk(payload) == [ret |-> 0, chunks |-> <<payload>>]
BlastOkTwoChunks(payload) ==
    [ret |-> 0, chunks |-> <<Take(payload, 1), Drop(payload, 1)>>]
BlastOkEmpty == [ret |-> 0, chunks |-> <<>>]
BlastOutOfInput == [ret |-> 2, chunks |-> <<>>]
BlastBadCode(payload) == [ret |-> 0 - 1, chunks |-> <<Take(payload, 1)>>]

LenChoices == {0, 1, 5, 255}
LangChoices == {1, 2, 3, 101, 9}
LoadCatalogs == UNION {[1..n -> LenChoices] : n \in 0..MaxCols}
BaseLens == <<1, 5, 1>>
HeaderLengths == {1, 16, 32, 33, 64, 65, 66, 96, 97, 128, 129, 130, 200}

LoadFiles ==
    {[bytes |-> RawBytes(TrueHeaderLength(Len(lens)), lens, lang),
      blast |-> BlastOk(OneRecord(lens))] :
        lens \in LoadCatalogs, lang \in LangChoices}
    \cup {[bytes |-> RawBytes(TrueHeaderLength(3), BaseLens, lang),
           blast |-> BlastOkTwoChunks(OneRecord(BaseLens))] : lang \in 0..255}
    \cup {[bytes |-> RawBytes(h, BaseLens, 3),
           blast |-> BlastOk(OneRecord(BaseLens))] : h \in HeaderLengths}
    \cup {[bytes |-> RawBytes(TrueHeaderLength(3), BaseLens, 3), blast |-> b] :
            b \in {BlastOkEmpty, BlastOutOfInput, BlastBadCode(OneRecord(BaseLens))}}
    \cup {[bytes |-> Take(RawBytes(TrueHeaderLength(3), BaseLens, 3), 9),
           blast |-> BlastOutOfInput],
          \* a declared header length of 9: byte 9 of the buffer is payload
          [bytes |-> RawBytes(9, BaseLens, 3),
           blast |-> BlastOk(<<1>> \o Rep(ord["SP"], 29))]}

Envs == [big_endian : BOOLEAN, tz : {0}, iconv_ok : {TRUE}]

\* DBF dbf; in main: empty buffer, null header and fields, columns not set
InitDbf ==
    /\ mem_buffer = <<>>
    /\ header = NullHeader
    /\ fields = NullFields
    /\ columns = Indeterminate
    /\ encoding = ""

\* write_parquet has not been entered
InitWriter ==
    /\ batch_size = Indeterminate
    /\ wp_start = Indeterminate
    /\ sink = <<>>

InitLoad ==
    /\ InitWriter
    /\ env \in Envs
    /\ input \in LoadFiles
    /\ pc = "start"
    /\ header_size = Indeterminate
    /\ chunk_no = 0
    /\ InitDbf
    /\ schema = NoSchema
    /\ batch = NoBatch

SpecLoad == InitLoad /\ [][NextLoad]_vars

(***************************************************************************)
(* Properties of the loader.                                               *)
(***************************************************************************)

\* C2: after a successful catalog build the first field's offset is 1 and
\* every later field's offset is the previous field's offset plus the
\* previous field's length, whatever the column count and the lengths.
C2_FieldOffsets ==
    fields # NullFields =>
        /\ fields[1].field_offset = 1
        /\ \A i \in 2..Len(fields) :
              fields[i].field_offset =
                  fields[i - 1].field_offset + fields[i - 1].field_length

\* a built catalog of three fields of lengths 5, 255, 1: offsets 1, 6, 261
C2_Witness ==
    /\ pc = "loaded"
    /\ Len(fields) = 3
    /\ fields[1].field_length = 5
    /\ fields[2].field_length = 255
    /\ fields[2].field_offset = 6
    /\ fields[3].field_offset = 261

CodePageOf ==
    [b \in 0..255 |->
        IF b = 1 THEN "CP437" ELSE IF b = 2 THEN "CP850"
        ELSE IF b = 3 THEN "CP852" ELSE IF b = 101 THEN "CP1252" ELSE "CP850"]

\* C8: once the header is parsed, the encoding is code page 437 for language
\* byte 0x01, 850 for 0x02, 852 for 0x03, 1252 for 0x65 and 850 for every
\* other byte, and so always one of these four identifiers.
C8_EncodingResolved ==
    header.set =>
        /\ encoding = CodePageOf[header.language]
        /\ encoding \in {"CP437", "CP850", "CP852", "CP1252"}

\* the unlisted language byte 0x09 resolved to the default
C8_Witness ==
    /\ pc = "loaded"
    /\ header.language = 9
    /\ encoding = "CP850"

\* C9: the column count is floor((header_length - 33) / 32) when
\* header_length > 32; with header_length < 65 the catalog build fails, the
\* load returns false and no catalog is installed; otherwise the load does
\* not fail there and columns is that count, at least 1.
C9_ColumnCount ==
    header.set =>
        LET hl == header.header_length IN
        /\ hl > 32 => dbf_NumCols(header) = (hl - 33) \div 32
        /\ hl < 65 => /\ dbf_NumCols(header) = 0
                      /\ fields = NullFields
                      /\ pc \in {"read_fields", "failed"}
        /\ hl >= 65 => pc # "failed"
        /\ fields # NullFields =>
              /\ columns = (hl - 33) \div 32
              /\ columns >= 1
              /\ Len(fields) = columns

\* a header length of 64 (count zero): the load has failed, no catalog
C9_Witness ==
    /\ pc = "failed"
    /\ header.set
    /\ header.header_length = 64
    /\ fields = NullFields

(***************************************************************************)
(* main.cpp: create_schema.                                                *)
(***************************************************************************)
ArrowType_Mut(fld) ==
    CASE fld.field_type = ord["C"] -> "STRING"
      [] fld.field_type = ord["N"] ->
            IF fld.field_decimals > 0 THEN "DOUBLE"
            ELSE IF fld.field_length < 9 THEN "INT32" ELSE "INT64"
      [] fld.field_type = ord["D"] -> "DATE32"
      [] fld.field_type = ord["L"] -> "BOOL"
      [] OTHER -> "STRING"

\* the switch on dbf.fields[i].field_type
ArrowType(fld) ==
    CASE fld.field_type = ord["C"] -> "STRING"
      [] fld.field_type = ord["N"] ->
            IF fld.field_decimals > 0 THEN "DOUBLE"
            ELSE IF fld.field_length <= 9 THEN "INT32" ELSE "INT64"
      [] fld.field_type = ord["D"] -> "DATE32"
      [] fld.field_type = ord["L"] -> "BOOL"
      [] OTHER -> "STRING"

\* one arrow::field per descriptor, i = 0 .. dbf_NumCols(dbf) - 1
create_schema(hdr, flds) ==
    [i \in 1..dbf_NumCols(hdr) |->
        [name |-> flds[i].field_name, type |-> ArrowType(flds[i])]]

(***************************************************************************)
(* main.cpp: memory as create_arrow_batch sees it.  m is the buffer's      *)
(* storage followed by the bytes that lie behind it; p is a char* as a     *)
(* 0-based index.                                                          *)
(***************************************************************************)
Rd(m, p) == m[p + 1]
Wr(m, p, b) == [m EXCEPT ![p + 1] = b]

\* isspace() in the "C" locale
isspace(c) == c \in {9, 10, 11, 12, 13, 32}

\* while (start <= end && isspace(*start)) { start++; len--; }
RECURSIVE SkipLeading(_, _, _, _)
SkipLeading(m, start, end, len) ==
    IF start <= end /\ isspace(Rd(m, start))
    THEN SkipLeading(m, start + 1, end, len - 1)
    ELSE [start |-> start, len |-> len]

\* while (end > start && isspace(*end)) { end--; len--; }
RECURSIVE SkipTrailing(_, _, _, _)
SkipTrailing(m, start, end, len) ==
    IF end > start /\ isspace(Rd(m, end))
    THEN SkipTrailing(m, start, end - 1, len - 1)
    ELSE [end |-> end, len |-> len]

\* trim_in_place: the memory after it, the returned pointer and the new len
trim_in_place(m, start, len) ==
    IF len = 0 THEN [m |-> m, start |-> start, len |-> 0]
    ELSE LET end == start + len - 1
             a == SkipLeading(m, start, end, len)
             b == SkipTrailing(m, a.start, end, a.len)
         IN [m |-> Wr(m, b.end + 1, 0), start |-> a.start, len |-> b.len]

\* the len bytes at p
Bytes(m, p, len) == [i \in 1..len |-> Rd(m, p + i - 1)]

\* the C string at p: the bytes before the first NUL
RECURSIVE CStr(_, _)
CStr(m, p) ==
    IF p >= Len(m) \/ Rd(m, p) = 0 THEN <<>>
    ELSE <<Rd(m, p)>> \o CStr(m, p + 1)

(***************************************************************************)
(* Value conversions.  A parsed integer is its sign and its decimal        *)
(* digits without leading zeros, so that 64-bit values are exact.          *)
(***************************************************************************)
IsDigit(c) == c >= 48 /\ c <= 57

\* the number of digits at the head of text
RECURSIVE DigitRun(_)
DigitRun(text) ==
    IF text = <<>> \/ ~IsDigit(Head(text)) THEN 0 ELSE 1 + DigitRun(Tail(text))

RECURSIVE StripZeros(_)
StripZeros(ds) ==
    IF Len(ds) > 1 /\ Head(ds) = 0 THEN StripZeros(Tail(ds)) ELSE ds

DigitsOf(text, n) == StripZeros([i \in 1..n |-> text[i] - 48])

\* a <= b for digit sequences without leading zeros
RECURSIVE DigitsLeq(_, _)
DigitsLeq(a, b) ==
    IF Len(a) # Len(b) THEN Len(a) < Len(b)
    ELSE IF a = <<>> THEN TRUE
    ELSE IF Head(a) # Head(b) THEN Head(a) < Head(b)
    ELSE DigitsLeq(Tail(a), Tail(b))

\* the largest magnitude of an intN_t, by sign
IntLimit(bits, neg) ==
    IF bits = 32
    THEN <<2, 1, 4, 7, 4, 8, 3, 6, 4, IF neg THEN 8 ELSE 7>>
    ELSE <<9, 2, 2, 3, 3, 7, 2, 0, 3, 6, 8, 5, 4, 7, 7, 5, 8, 0,
           IF neg THEN 8 ELSE 7>>

\* std::from_chars(first, last, value) for a signed integer of the given width
from_chars_int(text, bits) ==
    LET neg == text # <<>> /\ Head(text) = ord["-"]
        rest == IF neg THEN Tail(text) ELSE text
        n == DigitRun(rest)
        mag == DigitsOf(rest, n)
    IN IF n = 0 THEN [ok |-> FALSE]
       ELSE IF ~DigitsLeq(mag, IntLimit(bits, neg)) THEN [ok |-> FALSE]
       ELSE [ok |-> TRUE,
             value |-> [neg |-> neg /\ mag # <<0>>, mag |-> mag]]

\* fast_float::from_chars for fixed notation: [-] digits [. digits], at least
\* one digit; the value is mant * 10^-scale
from_chars_double(text) ==
    LET neg == text # <<>> /\ Head(text) = ord["-"]
        rest == IF neg THEN Tail(text) ELSE text
        n == DigitRun(rest)
        after == Drop(rest, n)
        dot == after # <<>> /\ Head(after) = ord["."]
        f == IF dot THEN DigitRun(Tail(after)) ELSE 0
    IN IF n + f = 0 THEN [ok |-> FALSE]
       ELSE [ok |-> TRUE,
             value |-> [neg |-> neg,
                        mant |-> StripZeros(
                            [i \in 1..n |-> rest[i] - 48]
                            \o [i \in 1..f |-> after[i + 1] - 48]),
                        scale |-> f]]

\* the BOOL case
bool_value(text) ==
    Len(text) = 1 /\ Head(text) \in {ord["T"], ord["t"], ord["1"], ord["Y"], ord["y"]}

RECURSIVE SkipSpace(_)
SkipSpace(str) ==
    IF str # <<>> /\ isspace(Head(str)) THEN SkipSpace(Tail(str)) ELSE str

RECURSIVE DecimalValue(_, _, _)
DecimalValue(str, n, acc) ==
    IF n = 0 THEN acc
    ELSE DecimalValue(Tail(str), n - 1, acc * 10 + (Head(str) - 48))

Min(a, b) == IF a < b THEN a ELSE b
Max(a, b) == IF a < b THEN b ELSE a

\* one %<width>d of sscanf: white space is skipped, then an optional sign and
\* digits, width characters at most
scan_d(str, width) ==
    LET s1 == SkipSpace(str)
        signed == s1 # <<>> /\ Head(s1) \in {ord["-"], ord["+"]}
        s2 == IF signed THEN Tail(s1) ELSE s1
        w == IF signed THEN width - 1 ELSE width
        n == Min(DigitRun(s2), w)
        v == DecimalValue(s2, n, 0)
    IN IF n <= 0 THEN [ok |-> FALSE]
       ELSE [ok |-> TRUE,
             value |-> IF signed /\ Head(s1) = ord["-"] THEN 0 - v ELSE v,
             rest |-> Drop(s2, n)]

\* sscanf(trimmed_data, "%4d%2d%2d", &year, &month, &day): the number of
\* conversions stored and their values
sscanf_date(str) ==
    LET y == scan_d(str, 4) IN
    IF ~y.ok THEN [count |-> 0]
    ELSE LET mo == scan_d(y.rest, 2) IN
         IF ~mo.ok THEN [count |-> 1]
         ELSE LET d == scan_d(mo.rest, 2) IN
              IF ~d.ok THEN [count |-> 2]
              ELSE [count |-> 3, year |-> y.value, month |-> mo.value,
                    day |-> d.value]

\* days from 1970-01-01 to the first day of month (1..12) of year
DaysToMonth(year, month) ==
    LET y == IF month <= 2 THEN year - 1 ELSE year
        era == y \div 400
        yoe == y - era * 400
        mp == IF month > 2 THEN month - 3 ELSE month + 9
        doy == (153 * mp + 2) \div 5
        doe == yoe * 365 + yoe \div 4 - yoe \div 100 + doy
    IN era * 146097 + doe - 719468

\* mktime(&tm) with tm_hour = tm_min = tm_sec = 0 and tm_isdst = 0: the
\* members are normalised (month 13 is January of the next year, day 30 of
\* February runs into March) and read as local time, tz seconds east of UTC
mktime(year, month, day, tz) ==
    LET months == year * 12 + (month - 1)
        y == months \div 12
        m == (months % 12) + 1
    IN (DaysToMonth(y, m) + (day - 1)) * 86400 - tz

\* C++ integer division: the quotient is truncated towards zero
TruncDiv(a, b) == IF a >= 0 THEN a \div b ELSE 0 - ((0 - a) \div b)

\* static_cast<int32_t>(epoch_seconds / (24 * 60 * 60))
DaysSinceEpoch(epoch_seconds) == TruncDiv(epoch_seconds, 24 * 60 * 60)

\* iconv(cd, ...) from the table's code page to UTF-8, for the bytes the
\* tables of this model hold: ASCII maps to itself, 0xE9 and 0x81 by code
\* page; 0x81 is not a character of CP1252 (EILSEQ)
IconvByte(enc, b) ==
    IF b < 128 THEN <<b>>
    ELSE IF b = 233 THEN
        (IF enc = "CP1252" THEN <<195, 169>>
         ELSE IF enc = "CP437" THEN <<206, 152>> ELSE <<195, 154>>)
    ELSE IF b = 129 /\ enc # "CP1252" THEN <<195, 188>>
    ELSE <<>>

\* the text converted as far as the first byte iconv rejects
RECURSIVE convert_to_utf8_opt_Mut(_, _)
convert_to_utf8_opt_Mut(text, enc) ==
    IF text = <<>> \/ IconvByte(enc, Head(text)) = <<>> THEN <<>>
    ELSE IconvByte(enc, Head(text)) \o convert_to_utf8_opt_Mut(Tail(text), enc)

\* convert_to_utf8_opt (POSIX): the converted text, or the empty view when
\* iconv reports an error
convert_to_utf8_opt(text, enc) ==
    IF text = <<>> THEN <<>>
    ELSE IF \E i \in 1..Len(text) : IconvByte(enc, text[i]) = <<>> THEN <<>>
    ELSE Flatten([i \in 1..Len(text) |-> IconvByte(enc, text[i])])

is_ascii(text) == \A i \in 1..Len(text) : text[i] <= 127

Null == [null |-> TRUE]
Value(v) == [null |-> FALSE, v |-> v]

\* the switch (field_type_id) on a cell that is not empty
Convert(type_id, m, p, len, enc, tz) ==
    LET text == Bytes(m, p, len) IN
    CASE type_id = "STRING" ->
            Value(IF is_ascii(text) THEN text ELSE convert_to_utf8_opt(text, enc))
      [] type_id = "INT32" ->
            LET r == from_chars_int(text, 32) IN
            IF r.ok THEN Value(r.value) ELSE Null
      [] type_id = "INT64" ->
            LET r == from_chars_int(text, 64) IN
            IF r.ok THEN Value(r.value) ELSE Null
      [] type_id = "DOUBLE" ->
            LET r == from_chars_double(text) IN
            IF r.ok THEN Value(r.value) ELSE Null
      [] type_id = "BOOL" -> Value(bool_value(text))
      [] type_id = "DATE32" ->
            LET r == sscanf_date(CStr(m, p)) IN
            IF r.count = 3
            THEN Value(DaysSinceEpoch(mktime(r.year, r.month, r.day, tz)))
            ELSE Null
      [] OTHER -> Null

\* the test made only on a cell that kept some length
EmptyTest_Mut(m, p, len) == len > 0 /\ Rd(m, p) = 0

\* if (*trimmed_data == '\0')
EmptyTest(m, p, len) == Rd(m, p) = 0

\* field_data[field_length] = backup_char
RestoreSentinel(m, p, backup_char) == Wr(m, p, backup_char)

\* the body of the row loop for one cell: the memory after it and the value
\* appended to the column's builder
\* (a singleton set names a value that is computed once)
ExtractCell(m, record_pointer, fld, type_id, enc, tz) ==
    LET field_data == record_pointer + fld.field_offset
        backup_char == Rd(m, field_data + fld.field_length)
    IN CHOOSE r \in
         UNION {{[m |-> RestoreSentinel(t.m, field_data + fld.field_length,
                                        backup_char),
                  cell |-> IF EmptyTest(t.m, t.start, t.len) THEN Null
                           ELSE Convert(type_id, t.m, t.start, t.len, enc, tz)] :
                    t \in {trim_in_place(m1, field_data, fld.field_length)}} :
                m1 \in {Wr(m, field_data + fld.field_length, 0)}} : TRUE

(***************************************************************************)
(* main.cpp: create_arrow_batch.                                           *)
(***************************************************************************)
IntMax == 2147483646 + 1

\* start_row + num_rows overflows int
SumOverflows(start_row, num_rows) == num_rows > IntMax - start_row

\* (start_row + num_rows > dbf.header->records): the int sum is converted to
\* unsigned, so a negative sum (also a wrapped one) is above every record
\* count below 2^31
SumExceeds(start_row, num_rows, records) ==
    IF SumOverflows(start_row, num_rows) THEN TRUE
    ELSE IF start_row + num_rows < 0 THEN TRUE
    ELSE start_row + num_rows > records

ActualRows_Mut(start_row, num_rows, records) ==
    IF SumExceeds(start_row, num_rows, records)
    THEN records - start_row + 1
    ELSE num_rows

\* const unsigned int actual_rows = ... ; a negative result here stands for
\* the value 2^32 more, which unsigned arithmetic gives
ActualRows(start_row, num_rows, records) ==
    IF SumExceeds(start_row, num_rows, records)
    THEN records - start_row
    ELSE num_rows

\* record_pointers[i] = data() + header_length + (start_row + i) * record_length
RecordPointers(hdr, start_row, actual_rows) ==
    [i \in 1..actual_rows |->
        hdr.header_length + (start_row + (i - 1)) * hdr.record_length]

\* for (i = 0; i < actual_rows; i++): the cells of column col from row i on
RECURSIVE RowLoop(_, _, _, _)
RowLoop(m, ctx, col, i) ==
    IF i > Len(ctx.record_pointers) THEN [m |-> m, cells |-> <<>>]
    ELSE CHOOSE a \in
           UNION {{[m |-> r.m, cells |-> <<c.cell>> \o r.cells] :
                      r \in {RowLoop(c.m, ctx, col, i + 1)}} :
                  c \in {ExtractCell(m, ctx.record_pointers[i], ctx.fields[col],
                                     ctx.schema[col].type, ctx.encoding,
                                     ctx.tz)}} : TRUE

\* for (col = 0; col < schema->num_fields(); col++): the arrays from col on
RECURSIVE ColLoop(_, _, _)
ColLoop(m, ctx, col) ==
    IF col > Len(ctx.schema) THEN [m |-> m, columns |-> <<>>]
    ELSE CHOOSE b \in
           UNION {{[m |-> r.m, columns |-> <<a.cells>> \o r.columns] :
                      r \in {ColLoop(a.m, ctx, col + 1)}} :
                  a \in {RowLoop(m, ctx, col, 1)}} : TRUE

\* one past the last byte the call touches: the sentinel of the last field of
\* the last record in range
TouchedEnd(hdr, flds, start_row, actual_rows) ==
    IF actual_rows <= 0 THEN 0
    ELSE hdr.header_length + (start_row + actual_rows - 1) * hdr.record_length
         + flds[Len(flds)].field_offset + flds[Len(flds)].field_length + 1

\* the batch of a call that runs to RecordBatch::Make, and the buffer after it
create_arrow_batch(buf, hdr, flds, sch, enc, tz, start_row, num_rows, garbage) ==
    LET actual_rows == ActualRows(start_row, num_rows, hdr.records)
        behind == Max(0, TouchedEnd(hdr, flds, start_row, actual_rows) - Len(buf))
    IN CHOOSE res \in
         UNION {UNION {{[mem_buffer |-> Take(r.m, Len(buf)),
                         batch |-> [status |-> "ok",
                                    start_row |-> start_row,
                                    num_rows |-> num_rows,
                                    actual_rows |-> actual_rows,
                                    record_pointers |-> ctx.record_pointers,
                                    columns |-> r.columns,
                                    out_of_bounds |-> behind > 0]] :
                           r \in {ColLoop(m, ctx, 1)}} :
                       m \in {buf \o Rep(garbage, behind)}} :
                ctx \in {[record_pointers |->
                              RecordPointers(hdr, start_row, actual_rows),
                          fields |-> flds, schema |-> sch, encoding |-> enc,
                          tz |-> tz]}} : TRUE

Failed(status, start_row, num_rows) ==
    [status |-> status, start_row |-> start_row, num_rows |-> num_rows]

StartRows == 0..(MaxRecords + 1)
RowCounts == {0 - 1, 0, 1, MaxRows, IntMax}

\* write_parquet's first step: auto schema = create_schema(dbf)
CreateSchema ==
    /\ pc = "loaded"
    /\ schema' = create_schema(header, fields)
    /\ pc' = "schema"
    /\ UNCHANGED <<writeVars, env, input, header_size, chunk_no, dbfVars, batch>>

\* a call create_arrow_batch(dbf, schema, start_row, num_rows) that returns
CreateArrowBatch ==
    /\ pc = "schema"
    /\ \E start_row \in StartRows, num_rows \in RowCounts :
        LET actual_rows == ActualRows(start_row, num_rows, header.records) IN
        /\ actual_rows >= 0
        /\ IF ~env.iconv_ok
           THEN \* iconv_open fails: Status::Invalid, nothing touched yet
                /\ batch' = Failed("error", start_row, num_rows)
                /\ UNCHANGED mem_buffer
           ELSE \E garbage \in
                    IF TouchedEnd(header, fields, start_row, actual_rows)
                           > Len(mem_buffer)
                    THEN {0, 255} ELSE {0} :
                \E r \in {create_arrow_batch(mem_buffer, header, fields, schema,
                             encoding, env.tz, start_row, num_rows, garbage)} :
                   /\ batch' = r.batch
                   /\ mem_buffer' = r.mem_buffer
    /\ UNCHANGED <<writeVars, env, input, pc, header_size, chunk_no, header, fields,
                   columns, encoding, schema>>

\* a call that does not return: the row count wrapped to about 2^32 (the
\* allocation of record_pointers throws), the int sum overflowed and the build
\* traps, or a byte behind the buffer was touched and the access faults
CreateArrowBatchAborts ==
    /\ pc = "schema"
    /\ \E start_row \in StartRows, num_rows \in RowCounts :
        LET actual_rows == ActualRows(start_row, num_rows, header.records) IN
        /\ \/ actual_rows < 0
           \/ SumOverflows(start_row, num_rows)
           \/ /\ env.iconv_ok
              /\ TouchedEnd(header, fields, start_row, actual_rows) > Len(mem_buffer)
        /\ batch' = Failed("abort", start_row, num_rows)
        /\ pc' = "crashed"
    /\ UNCHANGED <<writeVars, env, input, header_size, chunk_no, dbfVars, schema>>

NextBatch ==
    \/ CreateSchema
    \/ CreateArrowBatch
    \/ CreateArrowBatchAborts

(***************************************************************************)
(* Tables of the extractor's specification: a catalog of two fields and    *)
(* MaxRecords records.  One cell (the probe) holds a text drawn from the   *)
(* texts of its field's type, every other cell a plain right-justified     *)
(* value; an end-of-file byte follows the last record or not.              *)
(***************************************************************************)
PadRight(t, n) == t \o Rep(ord["SP"], n - Len(t))
PadLeft(t, n) == Rep(ord["SP"], n - Len(t)) \o t

Fld(name, type, length, decimals) ==
    [name |-> Str(name), type |-> ord[type], length |-> length,
     decimals |-> decimals]

BatchCatalogs ==
    {[language |-> 101, flds |-> <<Fld(<<"L">>, "L", 2, 0), Fld(<<"C">>, "C", 3, 0)>>],
     [language |-> 3,   flds |-> <<Fld(<<"D">>, "D", 9, 0), Fld(<<"F">>, "N", 5, 2)>>],
     [language |-> 1,   flds |-> <<Fld(<<"N">>, "N", 10, 0), Fld(<<"M">>, "N", 9, 0)>>],
     [language |-> 2,   flds |-> <<Fld(<<"M">>, "M", 3, 0), Fld(<<"X">>, "X", 2, 0)>>]}

LogicalTexts ==
    {Str(t) : t \in {<<"T">>, <<"SP", "t">>, <<"Y">>, <<"y">>, <<"1">>, <<"N">>,
                     <<"X">>, <<>>, <<"T", "T">>, <<"T", "NUL">>, <<"NUL", "T">>,
                     <<"NUL">>, <<"VT", "T">>, <<"TAB", "Y">>}}

CharacterTexts ==
    {Str(t) : t \in {<<>>, <<"A", "B">>, <<"SP", "A">>, <<"A", "B", "C">>,
                     <<"A", "SP", "B">>, <<"NUL", "A">>, <<"A", "NUL", "B">>,
                     <<"A", "VT">>, <<"TAB", "LF", "CR">>}}
    \cup {<<233>>, <<65, 129>>}

DateTexts ==
    {Str(t) : t \in {<<>>,
                     <<"2", "0", "2", "4", "0", "2", "2", "9">>,
                     <<"2", "0", "2", "3", "0", "2", "2", "9">>,
                     <<"1", "9", "7", "0", "0", "1", "0", "1">>,
                     <<"1", "9", "6", "9", "1", "2", "3", "1">>,
                     <<"2", "0", "2", "4", "1", "3", "0", "1">>,
                     <<"2", "0", "2", "4", "0", "2", "2">>,
                     <<"2", "0", "2", "4", "0", "2", "2", "9", "1">>,
                     <<"SP", "2", "0", "2", "4", "0", "1", "0", "1">>,
                     <<"2", "0", "2", "4", "SP", "2", "SP", "9">>,
                     <<"2", "0", "2", "4", "0", "2", "A", "B">>,
                     <<"2", "0", "2", "4", "A", "B", "0", "1">>,
                     <<"A", "B", "C", "D">>}}

IntegerTexts ==
    {Str(t) : t \in {<<>>, <<"SP", "SP", "1", "2", "3">>, <<"1", "2", "A">>,
                     <<"-", "5">>, <<"+", "5">>, <<"1", "SP", "2">>,
                     <<"A", "B", "C">>, <<"0", "0", "7">>, <<"-">>,
                     <<"9", "9", "9", "9", "9", "9", "9", "9", "9">>}}

LongTexts ==
    IntegerTexts
    \cup {Str(<<"1", "2", "3", "4", "5", "6", "7", "8", "9", "0">>),
          Str(<<"2", "1", "4", "7", "4", "8", "3", "6", "4", "8">>)}

DoubleTexts ==
    {Str(t) : t \in {<<>>, <<"SP", "1", ".", "5", "0">>, <<"1", ".", "5", "A">>,
                     <<".", "5">>, <<"-", "2", ".", "2", "5">>, <<".">>,
                     <<"1", ".">>, <<"A", "B", "C">>}}

\* the texts of a field's type that fit the field, padded to its length
BaseTexts(fld) ==
    CASE fld.type = ord["L"] -> LogicalTexts
      [] fld.type = ord["C"] -> CharacterTexts
      [] fld.type = ord["D"] -> DateTexts
      [] fld.type = ord["N"] ->
            IF fld.decimals > 0 THEN DoubleTexts
            ELSE IF fld.length <= 9 THEN IntegerTexts ELSE LongTexts
      [] fld.type = ord["M"] -> CharacterTexts
      [] OTHER -> LogicalTexts

\* Logical, Character and Memo texts are left-justified; Numeric and Date
\* texts are right-justified, and two of them left-justified as well
CellTexts(fld) ==
    LET fit == {u \in BaseTexts(fld) : Len(u) <= fld.length} IN
    IF fld.type \in {ord["N"], ord["D"]}
    THEN {PadLeft(t, fld.length) : t \in fit}
         \cup {PadRight(t, fld.length) :
                 t \in fit \cap {Str(<<"1", "2", "A">>), Str(<<"1", ".", "5", "A">>),
                                 Str(<<"2", "0", "2", "4", "0", "2", "2", "9">>)}}
    ELSE {PadRight(t, fld.length) : t \in fit}

PlainText(fld) ==
    CASE fld.type = ord["L"] -> PadLeft(Str(<<"T">>), fld.length)
      [] fld.type = ord["D"] ->
            PadLeft(Str(<<"2", "0", "2", "4", "0", "2", "2", "9">>), fld.length)
      [] fld.type = ord["N"] ->
            IF fld.decimals > 0 THEN PadLeft(Str(<<"1", ".", "5">>), fld.length)
            ELSE PadLeft(Str(<<"1", "2">>), fld.length)
      [] OTHER -> PadLeft(Str(<<"A">>), fld.length)

\* record r (0-based): the deletion flag, then the fields' bytes
RecordBytes(cat, r, probe, text) ==
    <<IF r = 0 THEN ord["SP"] ELSE ord["*"]>>
    \o Flatten([c \in 1..Len(cat.flds) |->
                  IF r = probe.row /\ c = probe.col THEN text
                  ELSE PlainText(cat.flds[c])])

TableBuffer(cat, probe, text, eof) ==
    HeaderBytes(MaxRecords, TrueHeaderLength(Len(cat.flds)),
                1 + SumLens([c \in 1..Len(cat.flds) |-> cat.flds[c].length]),
                cat.language)
    \o Flatten([c \in 1..Len(cat.flds) |->
                  FieldBytes(cat.flds[c].name, cat.flds[c].type,
                             cat.flds[c].length, cat.flds[c].decimals)])
    \o <<ord["CR"]>>
    \o Flatten([r \in 1..MaxRecords |-> RecordBytes(cat, r - 1, probe, text)])
    \o (IF eof THEN <<ord["EOF"]>> ELSE <<>>)

Probes == [row : 0..(MaxRecords - 1), col : 1..2]

TableBuffers(cat) ==
    UNION {{TableBuffer(cat, probe, text, eof) :
                text \in CellTexts(cat.flds[probe.col]), eof \in BOOLEAN} :
           probe \in Probes}

\* the process: a little-endian host; the time zone matters to a table with a
\* Date field, and iconv_open may not know the code page
BatchEnvs(cat) ==
    {[big_endian |-> FALSE, tz |-> tz, iconv_ok |-> TRUE] :
        tz \in IF cat.flds[1].type = ord["D"] THEN {0 - 10800, 0, 3600} ELSE {0}}
    \cup IF cat.language = 101
         THEN {[big_endian |-> FALSE, tz |-> 0, iconv_ok |-> FALSE]}
         ELSE {}

\* the handle after a successful dbc_load_dbf of a table
InitBatch ==
    /\ InitWriter
    /\ \E cat \in BatchCatalogs :
          /\ env \in BatchEnvs(cat)
          /\ mem_buffer \in TableBuffers(cat)
    /\ input = [bytes |-> Take(mem_buffer, TrueHeaderLength(2)),
                blast |-> BlastOk(Drop(mem_buffer, TrueHeaderLength(2)))]
    /\ pc = "loaded"
    /\ header_size = dbf_ReadHeaderSize(mem_buffer)
    /\ chunk_no = 1
    /\ header = ParsedHeader(mem_buffer, env.big_endian)
    /\ fields = FieldInfo(mem_buffer, dbf_NumCols(header), 0)
    /\ columns = dbf_NumCols(header)
    /\ encoding = Encoding(header.language)
    /\ schema = NoSchema
    /\ batch = NoBatch

SpecBatch == InitBatch /\ [][NextBatch]_vars

(***************************************************************************)
(* dbf_reader.cpp: dbf_get_field_value.                                    *)
(***************************************************************************)
\* value.find_first_not_of(" \t\n\r"), 0-based; Len(value) stands for npos
RECURSIVE find_first_not_of(_, _)
find_first_not_of(value, pos) ==
    IF pos >= Len(value) THEN Len(value)
    ELSE IF value[pos + 1] \in {32, 9, 10, 13} THEN find_first_not_of(value, pos + 1)
    ELSE pos

\* value.find_last_not_of(" \t\n\r") + 1; npos + 1 is 0
RECURSIVE find_last_not_of_plus_1(_, _)
find_last_not_of_plus_1(value, n) ==
    IF n = 0 THEN 0
    ELSE IF value[n] \in {32, 9, 10, 13} THEN find_last_not_of_plus_1(value, n - 1)
    ELSE n

\* the trimmed value of field col (1-based here) of record row
dbf_get_field_value(buf, hdr, flds, col, row) ==
    LET record_offset == hdr.header_length + row * hdr.record_length
        first == record_offset + flds[col].field_offset
        value == SubSeq(buf, first + 1, first + flds[col].field_length)
        erased == Drop(value, find_first_not_of(value, 0))
    IN Take(erased, find_last_not_of_plus_1(erased, Len(erased)))

(***************************************************************************)
(* main.cpp: write_parquet, run by main after a successful dbc_load_dbf.   *)
(* The sink is the Parquet writer: FileWriter::Open declares the schema,   *)
(* WriteRecordBatch submits a batch, Close closes.  The model keeps the    *)
(* first MaxSink calls.                                                    *)
(***************************************************************************)
MaxSink == MaxRecords + 4

BatchSizes == {0 - 1, 0, 1, MaxRows, 10000}

LogCall(c) == IF Len(sink) < MaxSink THEN Append(sink, c) ELSE sink

\* start < dbf.header->records: the int is converted to unsigned, so a
\* negative start is above every record count below 2^31
StartBelow(s, records) == s >= 0 /\ s < records

NextStart_Mut(s, b) == s + b + 1

\* start += batch_size
NextStart(s, b) == s + b

\* write_parquet(dbf, path, batch_size) is entered: auto schema = ...
WriteParquet ==
    /\ pc = "loaded"
    /\ \E b \in BatchSizes : batch_size' = b
    /\ schema' = create_schema(header, fields)
    /\ pc' = "open_writer"
    /\ UNCHANGED <<env, input, header_size, chunk_no, dbfVars, batch, wp_start,
                   sink>>

\* FileOutputStream::Open and FileWriter::Open(*schema, ...); either may fail
OpenWriter ==
    /\ pc = "open_writer"
    /\ \/ /\ sink' = LogCall([call |-> "schema", schema |-> schema])
          /\ wp_start' = 0
          /\ pc' = "loop"
       \/ /\ pc' = "write_error"
          /\ UNCHANGED <<sink, wp_start>>
    /\ UNCHANGED <<env, input, header_size, chunk_no, dbfVars, schema, batch,
                   batch_size>>

\* one turn of the loop: create_arrow_batch(dbf, schema, start, batch_size)
\* returns a status or a batch, which WriteRecordBatch writes or fails to
WriteBatch ==
    /\ pc = "loop"
    /\ StartBelow(wp_start, header.records)
    /\ LET actual_rows == ActualRows(wp_start, batch_size, header.records) IN
       /\ actual_rows >= 0
       /\ IF ~env.iconv_ok
          THEN /\ batch' = Failed("error", wp_start, batch_size)
               /\ pc' = "write_error"
               /\ UNCHANGED <<mem_buffer, wp_start, sink>>
          ELSE \E garbage \in
                   IF TouchedEnd(header, fields, wp_start, actual_rows)
                          > Len(mem_buffer)
                   THEN {0, 255} ELSE {0} :
               \E r \in {create_arrow_batch(mem_buffer, header, fields, schema,
                             encoding, env.tz, wp_start, batch_size, garbage)} :
                  /\ batch' = r.batch
                  /\ mem_buffer' = r.mem_buffer
                  /\ \/ /\ sink' = LogCall([call |-> "batch",
                                             start_row |-> wp_start,
                                             rows |-> r.batch.actual_rows])
                        /\ wp_start' = NextStart(wp_start, batch_size)
                        /\ pc' = "loop"
                     \/ /\ pc' = "write_error"
                        /\ UNCHANGED <<sink, wp_start>>
    /\ UNCHANGED <<env, input, header_size, chunk_no, header, fields, columns,
                   encoding, schema, batch_size>>

\* the call of the loop does not return (see CreateArrowBatchAborts)
WriteBatchAborts ==
    /\ pc = "loop"
    /\ StartBelow(wp_start, header.records)
    /\ LET actual_rows == ActualRows(wp_start, batch_size, header.records) IN
       \/ actual_rows < 0
       \/ SumOverflows(wp_start, batch_size)
       \/ /\ env.iconv_ok
          /\ TouchedEnd(header, fields, wp_start, actual_rows) > Len(mem_buffer)
    /\ batch' = Failed("abort", wp_start, batch_size)
    /\ pc' = "crashed"
    /\ UNCHANGED <<env, input, header_size, chunk_no, dbfVars, schema,
                   writeVars>>

\* the loop is left: writer->Close() and outfile->Close(); either may fail
CloseWriter ==
    /\ pc = "loop"
    /\ ~StartBelow(wp_start, header.records)
    /\ \/ /\ sink' = LogCall([call |-> "close"])
          /\ pc' = "done"
       \/ /\ pc' = "write_error"
          /\ UNCHANGED sink
    /\ UNCHANGED <<env, input, header_size, chunk_no, dbfVars, schema, batch,
                   batch_size, wp_start>>

NextWrite ==
    \/ WriteParquet
    \/ OpenWriter
    \/ WriteBatch
    \/ WriteBatchAborts
    \/ CloseWriter

\* main: dbc_load_dbf, then write_parquet if it returned true
NextRun == NextLoad \/ NextWrite

(***************************************************************************)
(* Input files of the run's specification: tables of 0 to MaxRecords + 1   *)
(* records of plain cells, with or without the end-of-file byte, and the   *)
(* files of the loader's specification that exercise its failures.         *)
(***************************************************************************)
NoProbe == [row |-> 0 - 1, col |-> 0]

\* the header and the descriptors of a table file
TableHeader(cat, records) ==
    HeaderBytes(records, TrueHeaderLength(Len(cat.flds)),
                1 + SumLens([c \in 1..Len(cat.flds) |-> cat.flds[c].length]),
                cat.language)
    \o Flatten([c \in 1..Len(cat.flds) |->
                  FieldBytes(cat.flds[c].name, cat.flds[c].type,
                             cat.flds[c].length, cat.flds[c].decimals)])
    \o <<ord["CR"]>>

\* what the compressed stream of a table file inflates to
TablePayload(cat, records, eof) ==
    Flatten([r \in 1..records |-> RecordBytes(cat, r - 1, NoProbe, <<>>)])
    \o (IF eof THEN <<ord["EOF"]>> ELSE <<>>)

TableFile(cat, records, eof) ==
    [bytes |-> TableHeader(cat, records) \o Rep(170, 8),
     blast |-> IF records >= 1
               THEN BlastOkTwoChunks(TablePayload(cat, records, eof))
               ELSE BlastOk(TablePayload(cat, records, eof))]

RunFiles ==
    {TableFile(cat, records, eof) :
        cat \in BatchCatalogs, records \in 0..(MaxRecords + 1), eof \in BOOLEAN}
    \cup {[bytes |-> RawBytes(h, BaseLens, 3),
           blast |-> BlastOk(OneRecord(BaseLens))] : h \in HeaderLengths}
    \cup {[bytes |-> RawBytes(TrueHeaderLength(3), BaseLens, 3), blast |-> b] :
            b \in {BlastOkEmpty, BlastOutOfInput, BlastBadCode(OneRecord(BaseLens))}}
    \cup {[bytes |-> Take(RawBytes(TrueHeaderLength(3), BaseLens, 3), 9),
           blast |-> BlastOutOfInput],
          [bytes |-> RawBytes(9, BaseLens, 3),
           blast |-> BlastOk(<<1>> \o Rep(ord["SP"], 29))]}

RunEnvs == [big_endian : BOOLEAN, tz : {0}, iconv_ok : BOOLEAN]

\* main before dbc_load_dbf
InitRun ==
    /\ InitWriter
    /\ env \in RunEnvs
    /\ input \in RunFiles
    /\ pc = "start"
    /\ header_size = Indeterminate
    /\ chunk_no = 0
    /\ InitDbf
    /\ schema = NoSchema
    /\ batch = NoBatch

SpecRun == InitRun /\ [][NextRun]_vars

\* a turn of the loop whose WriteRecordBatch returned OK: start += batch_size
LoopTurn ==
    /\ pc = "loop"
    /\ StartBelow(wp_start, header.records)
    /\ sink' = LogCall([call |-> "batch", start_row |-> wp_start,
                         rows |-> ActualRows(wp_start, batch_size,
                                             header.records)])
    /\ pc' = "loop"
    /\ wp_start' = NextStart(wp_start, batch_size)

\* the program keeps running: the load and the calls around the loop go on
\* while they can, and so do the turns of the loop.  No failure of the
\* writer is required to happen.  (The sink keeps MaxSink calls, so turns
\* that do not move start end up leaving the state as it is.)
SpecRunFair ==
    /\ SpecRun
    /\ WF_vars(NextLoad)
    /\ WF_vars(WriteParquet \/ OpenWriter \/ CloseWriter)
    /\ WF_<<wp_start, sink>>(LoopTurn)

(***************************************************************************)
(* The table as dbc_load_dbf left it, and its cells.                       *)
(***************************************************************************)
\* the buffer after the load: the copied header, then the inflated chunks
LoadedBuffer == Take(input.bytes, header_size) \o Flatten(input.blast.chunks)

\* the bytes of field c (1-based) of record r (0-based) in a buffer
CellOf(buf, r, c) ==
    LET first == header.header_length + r * header.record_length
                 + fields[c].field_offset
    IN SubSeq(buf, first + 1, first + fields[c].field_length)

TableCell(r, c) == CellOf(LoadedBuffer, r, c)

RECURSIVE StripLeft(_)
StripLeft(t) ==
    IF t # <<>> /\ isspace(Head(t)) THEN StripLeft(Tail(t)) ELSE t

RECURSIVE StripRight(_)
StripRight(t) ==
    IF t # <<>> /\ isspace(t[Len(t)]) THEN StripRight(SubSeq(t, 1, Len(t) - 1))
    ELSE t

\* a text without its leading and trailing whitespace
Trimmed(t) == StripRight(StripLeft(t))

\* the cells of the batch: column c, row k (1-based), taken from record
\* start_row + k - 1
BatchCells ==
    IF batch.status # "ok" THEN {}
    ELSE {x \in [c : 1..Len(batch.columns), k : 1..batch.actual_rows,
                 r : 0..(header.records - 1)] :
             x.r = batch.start_row + x.k - 1}

(***************************************************************************)
(* Claims on the extractor (SpecBatch).                                    *)
(***************************************************************************)
\* C1: after create_arrow_batch returns, with a batch or with an error,
\* every byte of dbf.mem_buffer has the value it had after the load.
C1_BufferUnchanged ==
    batch.status \in {"ok", "error"} => mem_buffer = LoadedBuffer

AllWhitespace(t) == \A i \in 1..Len(t) : isspace(t[i])

\* C3: a cell of the table whose bytes are all whitespace is null in the
\* batch, whatever the declared type of its field.
C3_BlankCellIsNull ==
    \A x \in BatchCells :
        AllWhitespace(TableCell(x.r, x.c))
            => batch.columns[x.c][x.k].null

\* a batch with an all-blank Logical cell, extracted as null
C3_Witness ==
    \E x \in BatchCells :
        /\ fields[x.c].field_type = ord["L"]
        /\ AllWhitespace(TableCell(x.r, x.c))
        /\ batch.columns[x.c][x.k].null

\* the calendar
IsLeap(y) == (y % 4 = 0 /\ y % 100 # 0) \/ y % 400 = 0

DaysIn(y, m) ==
    IF m = 2 THEN (IF IsLeap(y) THEN 29 ELSE 28)
    ELSE IF m \in {4, 6, 9, 11} THEN 30 ELSE 31

Num(t) == DecimalValue(t, Len(t), 0)

\* a text that is exactly YYYYMMDD and names a day of the calendar
IsDateLiteral(t) ==
    /\ Len(t) = 8
    /\ \A i \in 1..8 : IsDigit(t[i])
    /\ Num(SubSeq(t, 5, 6)) \in 1..12
    /\ Num(SubSeq(t, 7, 8)) \in 1..DaysIn(Num(SubSeq(t, 1, 4)), Num(SubSeq(t, 5, 6)))

DateCells == {x \in BatchCells : fields[x.c].field_type = ord["D"]}

\* C4: a Date cell is non-null in the batch only when its trimmed text is
\* exactly an 8-character YYYYMMDD literal of a valid calendar date.
C4_DateOnlyFromValidLiteral ==
    \A x \in DateCells :
        ~batch.columns[x.c][x.k].null
            => IsDateLiteral(Trimmed(TableCell(x.r, x.c)))

\* the leap years from 1970 up to y (exclusive), or from y up to 1970
RECURSIVE LeapsBetween(_, _)
LeapsBetween(a, b) ==
    IF a >= b THEN 0
    ELSE (IF IsLeap(a) THEN 1 ELSE 0) + LeapsBetween(a + 1, b)

RECURSIVE DaysBefore(_, _)
DaysBefore(y, m) == IF m = 1 THEN 0 ELSE DaysIn(y, m - 1) + DaysBefore(y, m - 1)

\* the days from 1970-01-01 to the day y-m-d of the calendar
CivilDays(y, m, d) ==
    (IF y >= 1970 THEN 365 * (y - 1970) + LeapsBetween(1970, y)
     ELSE 0 - (365 * (1970 - y) + LeapsBetween(y, 1970)))
    + DaysBefore(y, m) + (d - 1)

\* C5: the value of a Date cell holding a valid YYYYMMDD literal is the
\* number of days from 1970-01-01 to that date, in every time zone.
C5_DateIsDaysSinceEpoch ==
    \A x \in DateCells :
        LET t == Trimmed(TableCell(x.r, x.c)) IN
        IsDateLiteral(t)
            => batch.columns[x.c][x.k]
                 = Value(CivilDays(Num(SubSeq(t, 1, 4)), Num(SubSeq(t, 5, 6)),
                                   Num(SubSeq(t, 7, 8))))

TrueLetters == {ord["T"], ord["t"], ord["1"], ord["Y"], ord["y"]}

LogicalCells == {x \in BatchCells : fields[x.c].field_type = ord["L"]}

\* C6: a Logical cell with non-empty trimmed text is true when the text is
\* one character of T, t, 1, Y, y and false otherwise, never null.
C6_LogicalValue ==
    \A x \in LogicalCells :
        LET t == Trimmed(TableCell(x.r, x.c)) IN
        t # <<>>
            => batch.columns[x.c][x.k] = Value(Len(t) = 1 /\ t[1] \in TrueLetters)

\* the scalar type a field descriptor declares
DeclaredType(type, length, decimals) ==
    IF type = ord["C"] THEN "STRING"
    ELSE IF type = ord["N"] /\ decimals > 0 THEN "DOUBLE"
    ELSE IF type = ord["N"] /\ decimals = 0 /\ length <= 9 THEN "INT32"
    ELSE IF type = ord["N"] /\ decimals = 0 /\ length >= 10 THEN "INT64"
    ELSE IF type = ord["D"] THEN "DATE32"
    ELSE IF type = ord["L"] THEN "BOOL"
    ELSE "STRING"

\* C7: the schema has one column per catalog field, in catalog order, and
\* each column's type is the one the field's descriptor declares (Numeric
\* without decimals: 32-bit up to length 9, 64-bit from length 10).
C7_SchemaTypes ==
    pc # "loaded"
        => /\ Len(schema) = Len(fields)
           /\ \A i \in 1..Len(fields) :
                /\ schema[i].name = fields[i].field_name
                /\ schema[i].type = DeclaredType(fields[i].field_type,
                                                 fields[i].field_length,
                                                 fields[i].field_decimals)

\* the schema of the catalog with a Numeric field of length 10 and one of
\* length 9, both without decimals
C7_Witness ==
    /\ pc = "schema"
    /\ Len(schema) = 2
    /\ fields[1].field_type = ord["N"] /\ fields[1].field_length = 10
    /\ fields[2].field_type = ord["N"] /\ fields[2].field_length = 9
    /\ schema[1].type = "INT64"
    /\ schema[2].type = "INT32"

\* the rows of a returned batch: count rows in every column, row k taken
\* from record start_row + k, every record inside the table
BatchHasRows(count) ==
    /\ batch.actual_rows = count
    /\ Len(batch.columns) = Len(fields)
    /\ \A c \in 1..Len(batch.columns) : Len(batch.columns[c]) = count
    /\ Len(batch.record_pointers) = count
    /\ \A k \in 1..count :
          /\ batch.record_pointers[k]
               = header.header_length
                 + (batch.start_row + (k - 1)) * header.record_length
          /\ batch.start_row + (k - 1) < header.records

\* C10 (for a row count that is not negative): a returned batch of start
\* row s, 0 <= s <= records, and row count n >= 0 has min(n, records - s)
\* rows in every column, row k from record s + k, none from beyond the table.
C10_ClippedRows ==
    (/\ batch.status = "ok"
     /\ batch.num_rows >= 0
     /\ batch.start_row >= 0 /\ batch.start_row <= header.records)
        => BatchHasRows(Min(batch.num_rows, header.records - batch.start_row))

\* a request that overruns the table and is clipped to one row
C10_Witness ==
    /\ batch.status = "ok"
    /\ batch.start_row = header.records - 1
    /\ batch.num_rows = MaxRows
    /\ batch.start_row + batch.num_rows > header.records
    /\ batch.actual_rows = 1
    /\ Len(batch.columns[1]) = 1

\* C10 as stated, for every row count: a returned batch of start row s,
\* 0 <= s <= records, and row count n has min(n, records - s) rows.
C10_EveryRowCount ==
    (/\ batch.status = "ok"
     /\ batch.start_row >= 0 /\ batch.start_row <= header.records)
        => BatchHasRows(Min(batch.num_rows, header.records - batch.start_row))

(***************************************************************************)
(* Claims on the run (SpecRun): dbc_load_dbf, then write_parquet.          *)
(***************************************************************************)
\* the positions of the sink's calls that are batches holding record r
BatchesHolding(r) ==
    {i \in 1..Len(sink) :
        /\ sink[i].call = "batch"
        /\ sink[i].start_row <= r
        /\ r < sink[i].start_row + sink[i].rows}

\* C11: in a successful write_parquet run the schema is declared once and
\* first, then come the batches with start rows 0, b, 2b, ... strictly
\* increasing, every record in exactly one of them, then one close, last;
\* no call follows a close, and a table of zero records gets the schema and
\* the close only.
C11_SinkOrder ==
    /\ \A i \in 1..Len(sink) :
          /\ sink[i].call = "schema" <=> i = 1
          /\ sink[i].call = "close" => i = Len(sink) /\ pc = "done"
    /\ pc = "done" =>
          /\ Len(sink) >= 2
          /\ sink[1] = [call |-> "schema", schema |-> schema]
          /\ sink[Len(sink)].call = "close"
          /\ \A i \in 2..(Len(sink) - 1) :
                /\ sink[i].call = "batch"
                /\ sink[i].start_row = (i - 2) * batch_size
                /\ i > 2 => sink[i].start_row > sink[i - 1].start_row
          /\ \A r \in 0..(header.records - 1) :
                Cardinality(BatchesHolding(r)) = 1
          /\ header.records = 0 => Len(sink) = 2

\* three records written in batches of two: a full batch, then a partial one
C11_Witness ==
    /\ pc = "done"
    /\ header.records = 3
    /\ batch_size = 2
    /\ Len(sink) = 4
    /\ sink[2] = [call |-> "batch", start_row |-> 0, rows |-> 2]
    /\ sink[3] = [call |-> "batch", start_row |-> 2, rows |-> 1]
    /\ sink[4].call = "close"

(***************************************************************************)
(* Further claims on the extractor (SpecBatch).                            *)
(***************************************************************************)
IntegerCells ==
    {x \in BatchCells : schema[x.c].type \in {"INT32", "INT64"}}

\* a text that is, as a whole, an optional minus sign and one or more digits
IsIntegerLiteral(t) ==
    LET body == IF t # <<>> /\ Head(t) = ord["-"] THEN Tail(t) ELSE t IN
    body # <<>> /\ \A i \in 1..Len(body) : IsDigit(body[i])

\* the integer a literal denotes, as sign and magnitude
LiteralValue(t) ==
    LET neg == Head(t) = ord["-"]
        body == IF neg THEN Tail(t) ELSE t
        mag == DigitsOf(body, Len(body))
    IN [neg |-> neg /\ mag # <<0>>, mag |-> mag]

FitsWidth(t, bits) ==
    DigitsLeq(LiteralValue(t).mag, IntLimit(bits, Head(t) = ord["-"]))

\* C12: a Numeric cell without decimals is a non-null integer only when its
\* whole trimmed text is a signed decimal literal that fits the column's
\* width, and then it has the literal's value; any other non-empty text is
\* null.
C12_IntegerOnlyFromLiteral ==
    \A x \in IntegerCells :
        LET t == Trimmed(TableCell(x.r, x.c))
            bits == IF schema[x.c].type = "INT32" THEN 32 ELSE 64
        IN t # <<>> =>
              IF IsIntegerLiteral(t) /\ FitsWidth(t, bits)
              THEN batch.columns[x.c][x.k] = Value(LiteralValue(t))
              ELSE batch.columns[x.c][x.k].null

(***************************************************************************)
(* Further claims on the run (SpecRun).                                    *)
(***************************************************************************)
\* every stage of dbc_load_dbf has run and succeeded
FullyBuilt ==
    /\ header_size # 1
    /\ Len(input.bytes) >= header_size
    /\ chunk_no = Len(input.blast.chunks)
    /\ input.blast.ret = 0
    /\ header.set
    /\ fields # NullFields
    /\ columns >= 1
    /\ Len(fields) = columns

\* write_parquet has been entered
WriteEntered ==
    \/ pc \in {"open_writer", "loop", "done", "write_error"}
    \/ schema # NoSchema
    \/ batch # NoBatch
    \/ sink # <<>>

\* C13: dbc_load_dbf returns true only after all five stages succeeded in
\* their order, so header and fields are set and columns >= 1; a failed
\* stage ends the load with no later stage run, and then write_parquet is
\* never entered: no schema, no batch, no sink call.
C13_OnlyOnBuiltHandle ==
    /\ (pc = "loaded" \/ WriteEntered) => FullyBuilt
    /\ pc = "failed" =>
          /\ ~WriteEntered
          /\ fields = NullFields
          /\ header_size = 1 => mem_buffer = <<>>
          /\ Len(input.bytes) < header_size => chunk_no = 0
          /\ (Len(input.bytes) < header_size \/ input.blast.ret # 0)
                => ~header.set
          /\ (header_size # 1 /\ Len(input.bytes) >= header_size
              /\ input.blast.ret = 0 /\ ~header.set)
                => Len(mem_buffer) < SizeofHeader

\* a load that failed in decompression after one chunk had been stored
C13_Witness ==
    /\ pc = "failed"
    /\ input.blast.ret # 0
    /\ chunk_no = 1
    /\ ~header.set
    /\ schema = NoSchema

IsBlank(b) == b = 32 \/ b = 9 \/ b = 10 \/ b = 13

RECURSIVE StripBlanksLeft(_)
StripBlanksLeft(t) ==
    IF t # <<>> /\ IsBlank(Head(t)) THEN StripBlanksLeft(Tail(t)) ELSE t

RECURSIVE StripBlanksRight(_)
StripBlanksRight(t) ==
    IF t # <<>> /\ IsBlank(t[Len(t)])
    THEN StripBlanksRight(SubSeq(t, 1, Len(t) - 1))
    ELSE t

\* a text without its leading and trailing spaces, tabs, newlines and
\* carriage returns
StripBlanks(t) == StripBlanksRight(StripBlanksLeft(t))

TextCells == {x \in BatchCells : schema[x.c].type = "STRING"}

\* C14: the trimmed value of a cell is the field's bytes without the leading
\* and trailing runs of space, tab, newline and carriage return, no other
\* byte stripped or taken as the end; the extractor (seen in the text cells
\* of a batch, ASCII ones being appended as trimmed) and
\* dbf_get_field_value agree on it.
C14_TrimmedValue ==
    \A x \in TextCells :
        LET cell == TableCell(x.r, x.c)
            want == StripBlanks(cell)
        IN is_ascii(cell) =>
              /\ dbf_get_field_value(LoadedBuffer, header, fields, x.c, x.r) = want
              /\ IF want = <<>> THEN batch.columns[x.c][x.k].null
                 ELSE batch.columns[x.c][x.k] = Value(want)

\* the batch of the same request made on the table as it was loaded
FirstExtraction ==
    create_arrow_batch(LoadedBuffer, header, fields, schema, encoding, env.tz,
                       batch.start_row, batch.num_rows, 0).batch

\* C15: the batch of a row range depends only on the loaded table and on
\* the start row and row count: after any extractions made before on the
\* same handle it is the batch a first extraction of that range gives.
C15_SameBatchAgain ==
    batch.status = "ok" => batch = FirstExtraction

\* a text no number and no date can be read from
StartsWithLetter(t) == t # <<>> /\ Head(t) >= ord["A"] /\ Head(t) <= ord["Y"]

\* a text with a byte that the table's code page does not have
Unconvertible(t) ==
    \E i \in 1..Len(t) : t[i] > 127 /\ IconvByte(encoding, t[i]) = <<>>

\* the request of the last call lies inside the table and the buffer
RequestInside ==
    /\ batch.num_rows >= 0
    /\ batch.start_row <= header.records
    /\ batch.num_rows <= IntMax - batch.start_row
    /\ TouchedEnd(header, fields, batch.start_row,
                  Min(batch.num_rows, header.records - batch.start_row))
          <= Len(mem_buffer)

\* C16: no cell content aborts a batch.  A call ends without a batch only
\* for its row range or for iconv_open; a returned batch has every cell of
\* every row in range, a Numeric or Date cell that cannot be converted is
\* null and a Character cell that iconv cannot convert is the empty text.
C16_FailureStaysInCell ==
    /\ batch.status = "abort" => ~RequestInside
    /\ batch.status = "error" => ~env.iconv_ok
    /\ batch.status = "ok" =>
          /\ Len(batch.columns) = Len(fields)
          /\ \A c \in 1..Len(fields) : Len(batch.columns[c]) = batch.actual_rows
    /\ \A x \in BatchCells :
          LET t == Trimmed(TableCell(x.r, x.c))
              type == schema[x.c].type
          IN /\ (type \in {"INT32", "INT64", "DOUBLE", "DATE32"}
                 /\ StartsWithLetter(t)) => batch.columns[x.c][x.k].null
             /\ (type = "STRING" /\ Unconvertible(t))
                   => batch.columns[x.c][x.k] = Value(<<>>)

\* a batch of two rows of a CP1252 table whose Character cell holds the
\* byte 0x81: that cell is the empty text, the other cells are there
C16_Witness ==
    /\ batch.status = "ok"
    /\ encoding = "CP1252"
    /\ batch.actual_rows = 2
    /\ \E x \in TextCells :
          /\ Unconvertible(Trimmed(TableCell(x.r, x.c)))
          /\ batch.columns[x.c][x.k] = Value(<<>>)
          /\ ~batch.columns[1][x.k].null

(***************************************************************************)
(* Further claims on the loader (SpecLoad).                                *)
(***************************************************************************)
\* the little-endian number that bytes first .. last of the buffer spell
RECURSIVE LittleEndian(_, _)
LittleEndian(first, last) ==
    IF first > last THEN 0
    ELSE mem_buffer[first + 1] + 256 * LittleEndian(first + 1, last)

\* C17: the parsed record count, header length and record length are the
\* little-endian numbers in header bytes 4-7, 8-9 and 10-11, on a
\* little-endian and on a big-endian host.
C17_LittleEndianHeader ==
    header.set =>
        /\ header.records = LittleEndian(4, 7)
        /\ header.header_length = LittleEndian(8, 9)
        /\ header.record_length = LittleEndian(10, 11)

\* the header length that bytes 8-9 of the file declare
DeclaredHeaderLength == input.bytes[9] + 256 * input.bytes[10]

\* the header copy has been made in full
HeaderCopied ==
    /\ pc \notin {"start", "copy_header"}
    /\ header_size # 1
    /\ Len(input.bytes) >= header_size

\* the buffer is the file's first header_length bytes, then the chunks of
\* the sink calls made so far, in call order
BufferIsHeaderThenChunks ==
    HeaderCopied =>
        /\ header_size = DeclaredHeaderLength
        /\ CompressedStream = Drop(input.bytes, DeclaredHeaderLength + 4)
        /\ mem_buffer = SubSeq(input.bytes, 1, DeclaredHeaderLength)
                         \o Flatten(SubSeq(input.blast.chunks, 1, chunk_no))

\* a step of the load keeps every stored byte and drops none
BufferOnlyGrows ==
    /\ Len(mem_buffer') >= Len(mem_buffer)
    /\ SubSeq(mem_buffer', 1, Len(mem_buffer)) = mem_buffer

\* C18: the working buffer is built append-only: the file's first
\* header_length bytes verbatim, decompression from file offset
\* header_length + 4, each sink call's chunk appended in call order; no step
\* shortens the buffer or changes a stored byte, and the final buffer is
\* the header bytes followed by all chunks.
C18_AppendOnlyBuffer ==
    []BufferIsHeaderThenChunks /\ [][BufferOnlyGrows]_vars

\* a loaded table whose payload came in two chunks
C18_Witness ==
    /\ pc = "loaded"
    /\ chunk_no = 2
    /\ Len(input.blast.chunks[1]) = 1
    /\ Len(mem_buffer) = header_size + 1 + Len(input.blast.chunks[2])

(***************************************************************************)
(* Claims on the run's buffer accesses and on its end (SpecRun).           *)
(***************************************************************************)
\* field_data + field_length for field f (1-based) of record r: the byte
\* that create_arrow_batch saves, overwrites and restores
SentinelIndex(r, f) ==
    header.header_length + r * header.record_length
    + fields[f].field_offset + fields[f].field_length

\* C19: after a successful dbc_load_dbf the sentinel position of every
\* field of every record r < records lies inside the buffer.
C19_SentinelInsideBuffer ==
    pc = "loaded" =>
        \A r \in 0..(header.records - 1), f \in 1..Len(fields) :
            SentinelIndex(r, f) < Len(mem_buffer)

\* the run is over: the load failed, write_parquet returned (closed, or
\* with an error), or the process died
RunOver == pc \in {"failed", "done", "write_error", "crashed"}

\* C20: write_parquet terminates for every record count and every
\* batch_size: the loop reaches start >= records and the writer is closed,
\* or an error is returned.
C20_WriteTerminates == <>RunOver
====
